---- MODULE Spec2Model ----
(***************************************************************************)
(* Model of the retrieval-augmented memory pipeline of Lumilove_RAG:       *)
(* the chat_history table (authoritative store), the Chroma collection     *)
(* (long-term memory index), the recency read, and the three generation    *)
(* paths of RAGService with the HTTP endpoints that drive them.            *)
(*                                                                         *)
(* Strings are sequences of tokens.  A token is one character ("1", "_",   *)
(* "a", " ") or one fixed word that the code only ever compares as a whole *)
(* ("user", "character", "None", the in-flight sentinel).  Concatenation   *)
(* is \o, so fragment boundaries are lost exactly as they are in Python.   *)
(***************************************************************************)
EXTENDS Integers, Sequences, FiniteSets, TLC

VARIABLES
    store,   \* the rows of chat_history, in created_at order
    index,   \* the documents of the Chroma collection, in insertion order
    uuid,    \* how many ids uuid4() has handed out
    req,     \* the requests in flight: their locals and what their callers saw
    last     \* the last direct call of a store or index method and its return,
             \* with what its caller knows of the calls before it

vars == <<store, index, uuid, req, last>>

(***************************************************************************)
(* Bounds of the model                                                     *)
(***************************************************************************)
MaxFragments == 2

MaxStore == 2

MaxIndex == 2

MaxUuid == 3

MaxIdLen == 3

MaxItems == 3

(***************************************************************************)
(* Python values                                                           *)
(***************************************************************************)
\* Python's None, and SQL NULL: a one-token sequence no string contains.
None == <<"#None">>

Digits == {"1", "2"}

DigitVal(d) == IF d = "1" THEN 1 ELSE 2

\* str(x): the identity on a str, the text "None" for None.
PyStr(x) == IF x = None THEN <<"None">> ELSE x

\* bool(x) of an optional string: None and "" are falsy.
Truthy(x) == x # None /\ x # <<>>

\* s.strip() for the whitespace token " ".
RECURSIVE LStrip(_)
LStrip(s) == IF s # <<>> /\ Head(s) = " " THEN LStrip(Tail(s)) ELSE s

RECURSIVE RStrip(_)
RStrip(s) ==
    IF s # <<>> /\ s[Len(s)] = " " THEN RStrip(SubSeq(s, 1, Len(s) - 1)) ELSE s

Strip(s) == RStrip(LStrip(s))

\* s.split('_'): the pieces between the "_" tokens, empty pieces kept.
RECURSIVE SplitFrom(_, _, _)
SplitFrom(s, i, cur) ==
    IF i > Len(s) THEN <<cur>>
    ELSE IF s[i] = "_" THEN <<cur>> \o SplitFrom(s, i + 1, <<>>)
    ELSE SplitFrom(s, i + 1, Append(cur, s[i]))

Split(s) == SplitFrom(s, 1, <<>>)

\* Whether int(s) succeeds: decimal digits, single underscores allowed between
\* digits (Python's integer literal grammar); anything else is a ValueError.
IsInt(s) ==
    /\ s # <<>>
    /\ \A i \in 1..Len(s) : s[i] \in Digits \cup {"_"}
    /\ s[1] \in Digits /\ s[Len(s)] \in Digits
    /\ \A i \in 1..(Len(s) - 1) : ~(s[i] = "_" /\ s[i + 1] = "_")

RECURSIVE IntAcc(_, _, _)
IntAcc(s, i, acc) ==
    IF i > Len(s) THEN acc
    ELSE IF s[i] = "_" THEN IntAcc(s, i + 1, acc)
    ELSE IntAcc(s, i + 1, 10 * acc + DigitVal(s[i]))

\* int(s), for a string int() accepts.
IntOf(s) == IntAcc(s, 1, 0)

RECURSIVE Concat(_)
Concat(ss) == IF ss = <<>> THEN <<>> ELSE Head(ss) \o Concat(Tail(ss))

RECURSIVE SelectIdx(_, _, _)
\* The elements of s at the positions in P, in the order of s.
SelectIdx(s, P, i) ==
    IF i > Len(s) THEN <<>>
    ELSE (IF i \in P THEN <<s[i]>> ELSE <<>>) \o SelectIdx(s, P, i + 1)

Reverse(s) == [i \in 1..Len(s) |-> s[Len(s) + 1 - i]]

Take(s, n) == SubSeq(s, 1, IF Len(s) < n THEN Len(s) ELSE n)

(***************************************************************************)
(* Session keys                                                            *)
(***************************************************************************)
\* f"user_{user_id}_character_{character_id}"
SessionKey(user_id, character_id) ==
    <<"user", "_">> \o user_id \o <<"_", "character", "_">> \o character_id

DefaultCharacterId == <<"1">>

\* RAGService._extract_character_id_from_session
ExtractCharacterId(session_id) ==
    LET parts == Split(session_id)
    IN  IF Len(parts) >= 4 /\ parts[3] = <<"character">>
        THEN parts[4]
        ELSE DefaultCharacterId

\* The user identifiers and session identifiers a caller passes.
UserIds == {<<"1">>, <<"x">>}

K12 == SessionKey(<<"1">>, <<"2">>)

K21 == SessionKey(<<"2">>, <<"1">>)

SessionIds == {K12, K21, <<"x">>}

Messages == {<<"m">>}

\* The in-flight sentinel "[流式响应]" of the shared chat_history table.
Sentinel == <<"[streaming]">>

(***************************************************************************)
(* Authoritative store: the chat_history table                             *)
(***************************************************************************)
\* A row of chat_history.  id is the primary key; created_at grows with it,
\* so the order of the sequence is the order of created_at.
Row(id, user_id, character_id, message, response, session_id, is_deleted) ==
    [id |-> id, user_id |-> user_id, character_id |-> character_id,
     message |-> message, response |-> response, session_id |-> session_id,
     is_deleted |-> is_deleted]

\* Whether the arguments of ChatService.save_message pass its int() conversions.
SaveArgsOk(user_id, character_id) == IsInt(user_id) /\ IsInt(character_id)

\* The row ChatService.save_message adds and commits.
SavedRow(st, user_id, character_id, user_message, ai_response) ==
    Row(Len(st) + 1, IntOf(user_id), IntOf(character_id), user_message,
        ai_response, SessionKey(user_id, character_id), FALSE)

\* A save that replaces the newest row of the table instead of adding one.
SaveMessageOverwrite(st, user_id, character_id, user_message, ai_response) ==
    IF st = <<>>
    THEN <<SavedRow(st, user_id, character_id, user_message, ai_response)>>
    ELSE [st EXCEPT ![Len(st)] =
             SavedRow(SubSeq(st, 1, Len(st) - 1), user_id, character_id,
                      user_message, ai_response)]

\* ChatService.save_message, when the commit succeeds.
SaveMessage(st, user_id, character_id, user_message, ai_response) ==
    Append(st, SavedRow(st, user_id, character_id, user_message, ai_response))

\* query.filter(...).order_by(desc(created_at)).limit(limit).all(), for the
\* set P of positions of the rows that pass the filter.
QueryDesc(st, P, limit) == Take(Reverse(SelectIdx(st, P, 1)), limit)

\* The rows of a session, and those of them not soft-deleted.
SessionRows(st, session_id) ==
    {i \in 1..Len(st) : st[i].session_id = session_id}

LiveSessionRows(st, session_id) ==
    {i \in 1..Len(st) : st[i].session_id = session_id /\ ~st[i].is_deleted}

\* The rows of a user and a character that are not soft-deleted.
LiveUserCharacterRows(st, user_id, character_id) ==
    {i \in 1..Len(st) : /\ st[i].user_id = user_id
                        /\ st[i].character_id = character_id
                        /\ ~st[i].is_deleted}

\* Step 5 of ChatService.get_recent_messages raises (and the method returns
\* []) when the last-resort lookup cannot convert the key's pieces with int().
RecentRaises(st, session_id, limit) ==
    LET parts == Split(session_id)
    IN  /\ Len(QueryDesc(st, SessionRows(st, session_id), limit)) = 0
        /\ Len(parts) >= 4
        /\ ~(IsInt(parts[2]) /\ IsInt(parts[4]))

\* Step 5 of ChatService.get_recent_messages: the rows it formats, newest
\* first, when it does not raise.
RecentConversations(st, session_id, limit) ==
    LET conversations == QueryDesc(st, LiveSessionRows(st, session_id), limit)
        all_conversations == QueryDesc(st, SessionRows(st, session_id), limit)
        parts == Split(session_id)
    IN  IF Len(conversations) # 0 THEN conversations
        ELSE IF Len(all_conversations) # 0 THEN all_conversations
        ELSE IF Len(parts) >= 4
        THEN QueryDesc(st, LiveUserCharacterRows(st, IntOf(parts[2]), IntOf(parts[4])),
                       limit)
        ELSE conversations

\* Step 6 of ChatService.get_recent_messages: the entries of one row.
RowEntries(conv) ==
    (IF conv.message # None /\ conv.message # <<>> /\ Strip(conv.message) # <<>>
     THEN <<[message_type |-> "user", content |-> conv.message,
             timestamp |-> conv.id]>>
     ELSE <<>>)
    \o
    (IF /\ conv.response # None /\ conv.response # <<>>
        /\ Strip(conv.response) # <<>>
        /\ conv.response # Sentinel
     THEN <<[message_type |-> "assistant", content |-> conv.response,
             timestamp |-> conv.id]>>
     ELSE <<>>)

RECURSIVE FormatRows(_)
FormatRows(convs) ==
    IF convs = <<>> THEN <<>>
    ELSE RowEntries(Head(convs)) \o FormatRows(Tail(convs))

\* ChatService.get_recent_messages.  db_ok is whether the connection and the
\* table checks of steps 1 and 2 pass.
GetRecentMessages(st, session_id, limit, db_ok) ==
    IF ~db_ok \/ RecentRaises(st, session_id, limit) THEN <<>>
    ELSE FormatRows(Reverse(RecentConversations(st, session_id, limit)))

(***************************************************************************)
(* Long-term memory index: the Chroma collection "chat_history"            *)
(***************************************************************************)
top_k_results == 5

\* f"用户: {user}\n助手: {assistant}"
DocContent(msg) == <<"U:">> \o msg.user \o <<"\n", "A:">> \o msg.assistant

\* RecursiveCharacterTextSplitter.split_text on a text shorter than chunk_size
\* (every text of this model is): the pieces are merged back into one chunk,
\* stripped of surrounding whitespace.
SplitText(doc_content) == <<Strip(doc_content)>>

\* The documents and metadatas add_chat_to_vector_store builds; ids come from
\* the uuid counter u, one per document.
RECURSIVE NewChunks(_, _, _, _, _)
NewChunks(user_id, session_id, conversation_context, i, u) ==
    IF i > Len(conversation_context) THEN <<>>
    ELSE LET chunks == SplitText(DocContent(conversation_context[i]))
         IN  [j \in 1..Len(chunks) |->
                 [id |-> u + j, content |-> chunks[j], user_id |-> user_id,
                  session_id |-> session_id, message_index |-> i - 1,
                  type |-> "conversation"]]
             \o NewChunks(user_id, session_id, conversation_context, i + 1,
                          u + Len(chunks))

\* An upsert that writes nothing.
AddChatDropped(idx, u, user_id, session_id, conversation_context, add_ok) == idx

\* VectorStoreService.add_chat_to_vector_store: the collection afterwards.
\* add_ok is whether vector_store.add_texts (embedding and storage) succeeds;
\* its exception is caught and printed.
AddChatToVectorStore(idx, u, user_id, session_id, conversation_context, add_ok) ==
    IF add_ok
    THEN idx \o NewChunks(user_id, session_id, conversation_context, 1, u)
    ELSE idx

\* The filter search_relevant_context builds: None is "no session filter".
FilterMatches(doc, user_id, session_id) ==
    IF Truthy(session_id)
    THEN doc.user_id = user_id /\ doc.session_id = session_id
    ELSE doc.user_id = user_id

\* What similarity_search_with_score may return: at most k documents of the
\* collection.  An engine whose filter works returns only matching documents;
\* the set below also holds the answers of an engine whose filter does not.
EngineAnswers(idx, k) ==
    {SelectIdx(idx, P, 1) :
        P \in {Q \in SUBSET (1..Len(idx)) : Cardinality(Q) <= k}}

\* An engine whose filter works: the matching documents, at most k of them.
FilteredAnswer(idx, user_id, session_id, k) ==
    Take(SelectIdx(idx,
                   {i \in 1..Len(idx) :
                       FilterMatches(idx[i], user_id, session_id)}, 1), k)

\* A re-verification that forgets the session: only the user is compared.
MetadataVerifiedUserOnly(doc, user_id, session_id) ==
    PyStr(doc.user_id) = PyStr(user_id)

\* The re-verification of one result (vector_store.py, the if of the loop).
MetadataVerified(doc, user_id, session_id) ==
    /\ PyStr(doc.user_id) = PyStr(user_id)
    /\ PyStr(doc.session_id) = PyStr(session_id)

\* VectorStoreService.search_relevant_context, given the engine's answer.
RECURSIVE SearchRelevantContext(_, _, _)
SearchRelevantContext(results, user_id, session_id) ==
    IF results = <<>> THEN <<>>
    ELSE (IF MetadataVerified(Head(results), user_id, session_id)
          THEN <<[content |-> Head(results).content, metadata |-> Head(results),
                  similarity_score |-> "0.5"]>>
          ELSE <<>>)
         \o SearchRelevantContext(Tail(results), user_id, session_id)

\* A deletion that empties the collection.
DeleteEverySession(idx, session_id, del_ok) == IF del_ok THEN <<>> ELSE idx

\* A deletion that removes the oldest chunk of the session only.
DeleteOldestOfSession(idx, session_id, del_ok) ==
    LET P == {i \in 1..Len(idx) : idx[i].session_id = session_id}
    IN  IF del_ok /\ P # {}
        THEN SelectIdx(idx, (1..Len(idx)) \ {CHOOSE i \in P : \A j \in P : i <= j}, 1)
        ELSE idx

\* A deletion that removes nothing.
DeleteNothing(idx, session_id, del_ok) == idx

\* VectorStoreService.delete_session_vectors.  del_ok is whether
\* collection.get and collection.delete work; their exception is caught and
\* printed.
DeleteSessionVectors(idx, session_id, del_ok) ==
    IF del_ok
    THEN SelectIdx(idx, {i \in 1..Len(idx) : idx[i].session_id # session_id}, 1)
    ELSE idx

(***************************************************************************)
(* Direct calls of the index methods                                       *)
(***************************************************************************)
NoCall == [op |-> "none", args |-> <<>>, raw |-> <<>>, result |-> <<>>]

NoRequests == <<>>

Assistants == {<<"a">>, <<>>}

Ks == {1, 3}

IndexSessionIds == {K12, K21}

\* The assistant texts of the exchanges written by direct calls.
IndexAssistants == {<<"a">>}

\* The sessions whose chunks a caller of the index methods has had deleted,
\* with no upsert for them since.
Deleted(l) == IF l.op \in {"upsert", "query", "delete"} THEN l.deleted ELSE {}

\* What the caller of a query remembers of the call before it: the upsert it
\* has just made, if any.
Before(l) ==
    IF l.op = "upsert"
    THEN [op |-> l.op, args |-> l.args, raw |-> l.raw]
    ELSE [op |-> "none", args |-> <<>>, raw |-> <<>>]

\* add_chat_to_vector_store(user_id, session_id, [{user, assistant}]); raw is
\* the documents it hands to add_texts.
IdxUpsert(user_id, session_id, msg, add_ok) ==
    /\ Len(index) < MaxIndex
    /\ uuid < MaxUuid
    /\ index' = AddChatToVectorStore(index, uuid, user_id, session_id, <<msg>>, add_ok)
    /\ uuid' = uuid + 1
    /\ last' = [op |-> "upsert",
                args |-> [user_id |-> user_id, session_id |-> session_id,
                          add_ok |-> add_ok],
                raw |-> NewChunks(user_id, session_id, <<msg>>, 1, uuid),
                result |-> <<>>,
                deleted |-> Deleted(last) \ {session_id}]
    /\ UNCHANGED <<store, req>>

\* search_relevant_context(query, user_id, session_id, k): the engine answers
\* with results, or raises and the method returns [].
IdxQuery(user_id, session_id, k) ==
    /\ \/ \E results \in EngineAnswers(index, k) :
            last' = [op |-> "query",
                     args |-> [user_id |-> user_id, session_id |-> session_id, k |-> k],
                     raw |-> results,
                     result |-> SearchRelevantContext(results, user_id, session_id),
                     deleted |-> Deleted(last),
                     before |-> Before(last)]
       \/ last' = [op |-> "query",
                   args |-> [user_id |-> user_id, session_id |-> session_id, k |-> k],
                   raw |-> <<>>, result |-> <<>>,
                   deleted |-> Deleted(last),
                   before |-> Before(last)]
    /\ UNCHANGED <<store, index, uuid, req>>

\* delete_session_vectors(session_id)
IdxDelete(session_id, del_ok) ==
    /\ index' = DeleteSessionVectors(index, session_id, del_ok)
    /\ last' = [op |-> "delete",
                args |-> [session_id |-> session_id, del_ok |-> del_ok],
                raw |-> <<>>, result |-> <<>>,
                deleted |-> IF del_ok THEN Deleted(last) \cup {session_id}
                            ELSE Deleted(last),
                before |-> index,
                repeat |-> /\ last.op = "delete"
                           /\ last.args.session_id = session_id
                           /\ last.args.del_ok]
    /\ UNCHANGED <<store, uuid, req>>

\* The collection is persistent: the process finds it empty, or holding the
\* chunk of an earlier exchange of user 1 in session K12.
IndexSeeds ==
    {<<>>, NewChunks(<<"1">>, K12, <<[user |-> <<"m">>, assistant |-> <<"b">>]>>, 1, 0)}

InitIndex ==
    /\ store = <<>>
    /\ index \in IndexSeeds
    /\ uuid = Len(index)
    /\ req = NoRequests
    /\ last = NoCall

NextIndex ==
    \/ \E u \in UserIds, s \in IndexSessionIds, a \in IndexAssistants,
          m \in Messages, add_ok \in BOOLEAN :
          IdxUpsert(u, s, [user |-> m, assistant |-> a], add_ok)
    \/ \E u \in UserIds, s \in IndexSessionIds \cup {None}, k \in Ks :
          IdxQuery(u, s, k)
    \/ \E s \in IndexSessionIds, del_ok \in BOOLEAN : IdxDelete(s, del_ok)

SpecIndex == InitIndex /\ [][NextIndex]_vars

(***************************************************************************)
(* Direct calls of the store methods, and the other writer of the table    *)
(***************************************************************************)
K11 == SessionKey(<<"1">>, <<"1">>)

Kx1 == SessionKey(<<"x">>, <<"1">>)

RecentKeys == {K11, K12, <<"x">>, Kx1}

Limits == {1, 10}

CharacterIds == {<<"1">>, <<"2">>}

StoredResponses == {<<"a">>, Sentinel, <<>>}

\* A row written by the SpringBoot application, which owns the table: its
\* session_id column is nullable, its response may be the in-flight sentinel,
\* and it soft-deletes rows.
ExtInsert(character_id, message, response, has_key, is_deleted) ==
    /\ Len(store) < MaxStore
    /\ store' = Append(store,
                       Row(Len(store) + 1, 1, IntOf(character_id), message, response,
                           IF has_key THEN SessionKey(<<"1">>, character_id) ELSE None,
                           is_deleted))
    /\ last' = [op |-> "insert", args |-> <<>>, raw |-> <<>>, result |-> <<>>]
    /\ UNCHANGED <<index, uuid, req>>

\* save_message(user_id, character_id, user_message, ai_response)
StoreSave(user_id, character_id, message, response) ==
    /\ Len(store) < MaxStore
    /\ store' = IF SaveArgsOk(user_id, character_id)
                THEN SaveMessage(store, user_id, character_id, message, response)
                ELSE store
    /\ last' = [op |-> "save", args |-> <<user_id, character_id>>, raw |-> <<>>,
                result |-> <<>>]
    /\ UNCHANGED <<index, uuid, req>>

\* get_recent_messages(session_id, limit)
Recent(session_id, limit, db_ok) ==
    /\ last' = [op |-> "recent",
                args |-> [session_id |-> session_id, limit |-> limit],
                raw |-> <<>>,
                result |-> GetRecentMessages(store, session_id, limit, db_ok)]
    /\ UNCHANGED <<store, index, uuid, req>>

\* A deletion that removes the rows of the session from the table.
DeleteSessionPurges(st, session_id, session_exists) ==
    IF session_exists
    THEN SelectIdx(st, {i \in 1..Len(st) : st[i].session_id # session_id}, 1)
    ELSE st

\* ChatService.delete_session: the table afterwards.  session_exists is
\* whether chat_sessions holds a row of the session; only then are the rows of
\* the session updated.
DeleteSessionRows(st, session_id, session_exists) ==
    IF session_exists
    THEN [i \in 1..Len(st) |->
             IF st[i].session_id = session_id
             THEN [st[i] EXCEPT !.is_deleted = TRUE]
             ELSE st[i]]
    ELSE st

\* delete_session(session_id)
DeleteSession(session_id, session_exists) ==
    /\ store' = DeleteSessionRows(store, session_id, session_exists)
    /\ last' = [op |-> "delete_session",
                args |-> [session_id |-> session_id], raw |-> <<>>,
                result |-> session_exists, before |-> store]
    /\ UNCHANGED <<index, uuid, req>>

InitStore ==
    /\ store = <<>>
    /\ index = <<>>
    /\ uuid = 0
    /\ req = NoRequests
    /\ last = NoCall

NextStore ==
    \/ \E c \in CharacterIds, m \in Messages, a \in StoredResponses,
          has_key \in BOOLEAN, is_deleted \in BOOLEAN :
          ExtInsert(c, m, a, has_key, is_deleted)
    \/ \E u \in UserIds, c \in CharacterIds, m \in Messages, a \in Assistants :
          StoreSave(u, c, m, a)
    \/ \E s \in RecentKeys, limit \in Limits, db_ok \in BOOLEAN : Recent(s, limit, db_ok)
    \/ \E s \in RecentKeys, session_exists \in BOOLEAN : DeleteSession(s, session_exists)

SpecStore == InitStore /\ [][NextStore]_vars

(***************************************************************************)
(* Direct calls of the session-key functions                               *)
(***************************************************************************)
\* The tokens an identifier is made of: digits, and the "_" that int() allows
\* between digits.
IdTokens == {"1", "2", "_"}

\* The identifiers a caller passes to create_session: the schema asks for a
\* str and nothing checks it.
Identifiers == UNION {[1..n -> IdTokens] : n \in 1..MaxIdLen}

\* The session ids a caller passes that create_session did not build.
RawKeys ==
    {<<"x">>, None, <<"user", "_", "1">>, <<"user", "_", "1", "_", "character">>,
     <<"1", "_", "2", "_", "character", "_", "2">>, K12}

\* _extract_character_id_from_session never raises: its bare except returns
\* the default.
ExtractRaises(session_id) == FALSE

\* ChatService.get_session_by_id:
\* session_id.startswith("user_") and "_character_" in session_id
SessionExists(session_id) ==
    /\ Len(session_id) >= 2 /\ session_id[1] = "user" /\ session_id[2] = "_"
    /\ \E i \in 1..(Len(session_id) - 2) :
          /\ session_id[i] = "_"
          /\ session_id[i + 1] = "character"
          /\ session_id[i + 2] = "_"

\* create_session(user_id, character_id)
CreateSession(user_id, character_id) ==
    /\ last' = [op |-> "create_session",
                args |-> [user_id |-> user_id, character_id |-> character_id],
                raw |-> <<>>,
                result |-> SessionKey(user_id, character_id)]
    /\ UNCHANGED <<store, index, uuid, req>>

\* _extract_character_id_from_session(the key create_session just built)
ExtractBuilt ==
    /\ last.op = "create_session"
    /\ last' = [op |-> "round_trip",
                args |-> [user_id |-> last.args.user_id,
                          character_id |-> last.args.character_id,
                          session_id |-> last.result],
                raw |-> <<>>,
                result |-> [raised |-> ExtractRaises(last.result),
                            value |-> ExtractCharacterId(last.result)]]
    /\ UNCHANGED <<store, index, uuid, req>>

\* _extract_character_id_from_session(session_id), for a session id as the
\* endpoints receive it
ExtractRaw(session_id) ==
    /\ last' = [op |-> "extract",
                args |-> [session_id |-> session_id],
                raw |-> <<>>,
                result |-> [raised |-> ExtractRaises(session_id),
                            value |-> ExtractCharacterId(session_id)]]
    /\ UNCHANGED <<store, index, uuid, req>>

\* get_session_by_id(session_id)
GetSessionById(session_id) ==
    /\ last' = [op |-> "get_session_by_id",
                args |-> [session_id |-> session_id],
                raw |-> <<>>,
                result |-> SessionExists(session_id)]
    /\ UNCHANGED <<store, index, uuid, req>>

InitKey ==
    /\ store = <<>>
    /\ index = <<>>
    /\ uuid = 0
    /\ req = NoRequests
    /\ last = NoCall

NextKey ==
    \/ \E u \in Identifiers, c \in Identifiers : CreateSession(u, c)
    \/ ExtractBuilt
    \/ \E s \in RawKeys : ExtractRaw(s)
    \/ \E s \in RawKeys \ {None} : GetSessionById(s)

SpecKey == InitKey /\ [][NextKey]_vars

(***************************************************************************)
(* Rendering of the retrieved context                                      *)
(***************************************************************************)
\* len(token_encoder.encode(text)): every token of a text of the model is
\* one token of the encoder.
CountTokens(text) == Len(text)

\* sep.join(parts)
RECURSIVE Join(_, _)
Join(parts, sep) ==
    IF parts = <<>> THEN <<>>
    ELSE IF Len(parts) = 1 THEN parts[1]
    ELSE parts[1] \o sep \o Join(Tail(parts), sep)

\* str(i) of the position of an item.
NumToken(i) == <<"1", "2", "3", "4", "5">>[i]

\* The texts of the chunks a retrieval returns, and the lists of them.
ItemContents == {[i \in 1..n |-> "a"] : n \in {3, 6, 9}}

RetrievedItems ==
    {[content |-> c, similarity_score |-> "0.5"] : c \in ItemContents}

RetrievedLists == UNION {[1..n -> RetrievedItems] : n \in 0..MaxItems}

\* The ceilings a caller configures, in tokens.
Ceilings == {8, 16, 24}

\* "No relevant historical conversation records found."
NoContextText == <<"No relevant historical conversation records found.">>

\* The placeholder of _optimize_context_for_tokens.
NoContextTextOptimized == <<"[no relevant history]">>

\* f"Relevant conversation {i} (similarity: {similarity_score:.3f}):\n{content}"
ContextPart(i, ctx) ==
    <<"Relevant conversation ", NumToken(i), " (similarity: ",
      ctx.similarity_score, "):\n">> \o ctx.content

\* A rendering without the placeholder.
BuildContextNoPlaceholder(relevant_context) ==
    Join([i \in 1..Len(relevant_context) |-> ContextPart(i, relevant_context[i])],
         <<"\n\n">>)

\* RAGService._build_context_from_retrieval
BuildContextFromRetrieval(relevant_context) ==
    IF relevant_context = <<>> THEN NoContextText
    ELSE Join([i \in 1..Len(relevant_context) |->
                  ContextPart(i, relevant_context[i])],
              <<"\n\n">>)

\* f"对话{i}(相似度{similarity_score:.2f}): {content}"
OptimizedPart(i, ctx) ==
    <<"conversation ", NumToken(i), "(similarity ", ctx.similarity_score, "): ">>
    \o ctx.content

\* The loop of _optimize_context_for_tokens from item i on: it stops at the
\* first item whose content does not fit any more.
RECURSIVE OptimizedParts(_, _, _, _)
OptimizedParts(relevant_context, i, current_tokens, max_context_tokens) ==
    IF i > Len(relevant_context) THEN <<>>
    ELSE LET content_tokens == CountTokens(relevant_context[i].content)
         IN  IF current_tokens + content_tokens > max_context_tokens THEN <<>>
             ELSE <<OptimizedPart(i, relevant_context[i])>>
                  \o OptimizedParts(relevant_context, i + 1,
                                    current_tokens + content_tokens,
                                    max_context_tokens)

\* RAGService._optimize_context_for_tokens
OptimizeContextForTokens(relevant_context, max_context_tokens) ==
    IF relevant_context = <<>> THEN NoContextTextOptimized
    ELSE Join(OptimizedParts(relevant_context, 1, 0, max_context_tokens), <<"\n">>)

\* _build_context_from_retrieval(relevant_context), as the generation paths
\* call it; ceiling is the ceiling configured at that time, which the method
\* is not given.
BuildContext(relevant_context, ceiling) ==
    /\ last' = [op |-> "build_context",
                args |-> [relevant_context |-> relevant_context,
                          ceiling |-> ceiling],
                raw |-> <<>>,
                result |-> BuildContextFromRetrieval(relevant_context)]
    /\ UNCHANGED <<store, index, uuid, req>>

\* _optimize_context_for_tokens(relevant_context, max_context_tokens)
OptimizeContext(relevant_context, max_context_tokens) ==
    /\ last' = [op |-> "optimize_context",
                args |-> [relevant_context |-> relevant_context,
                          ceiling |-> max_context_tokens],
                raw |-> <<>>,
                result |-> OptimizeContextForTokens(relevant_context,
                                                    max_context_tokens)]
    /\ UNCHANGED <<store, index, uuid, req>>

InitPrompt ==
    /\ store = <<>>
    /\ index = <<>>
    /\ uuid = 0
    /\ req = NoRequests
    /\ last = NoCall

NextPrompt ==
    \/ \E items \in RetrievedLists, ceiling \in Ceilings : BuildContext(items, ceiling)
    \/ \E items \in RetrievedLists, ceiling \in Ceilings :
          OptimizeContext(items, ceiling)

SpecPrompt == InitPrompt /\ [][NextPrompt]_vars

(***************************************************************************)
(* The generation paths of RAGService and the endpoints that drive them    *)
(***************************************************************************)
\* message:        POST /api/chat/message         -> generate_response_with_rag
\* message_stream: POST /api/chat/message/stream  -> generate_response_with_rag_stream
\* springboot:     POST /api/chat/springboot/stream -> the same generator
\* authenticated:  POST /api/chat/message/stream/authenticated -> the same generator
\* character:      a direct consumer of generate_character_response_stream
Kinds == {"message", "message_stream", "springboot", "authenticated", "character"}

StreamKinds == {"message_stream", "springboot", "authenticated", "character"}

\* The endpoints that relay only the text of non-empty fragments and close
\* the response with [DONE].
ProxyKinds == {"springboot", "authenticated"}

\* The consumers of generate_response_with_rag_stream, whose index write sits
\* in a try of its own.
RagStreamKinds == {"message_stream", "springboot", "authenticated"}

Active == {1}

\* The fragments the backend's stream may carry (delta["content"]).
Fragments == {<<"a">>, <<"b">>, <<>>}

\* What chat_completion returns: message.content.strip().
Completions == {<<"a">>, <<>>}

\* An accumulator that puts the new fragment in front.
AccumulatePrepend(complete_response, chunk) == chunk \o complete_response

\* complete_response += chunk
Accumulate(complete_response, chunk) == complete_response \o chunk

\* The item the generators yield for a fragment.
StreamItem(chunk) == [kind |-> "chunk", chunk |-> chunk]

\* The item the generators' except clause yields.
ErrorItem == [kind |-> "error", chunk |-> <<>>]

\* What an endpoint writes to its HTTP response for one item of the generator.
WireOf(kind, item) ==
    IF kind \in ProxyKinds
    THEN IF item.kind = "chunk" /\ item.chunk # <<>>
         THEN <<[kind |-> "data", chunk |-> item.chunk]>>
         ELSE <<>>
    ELSE <<item>>

\* What an endpoint writes when the generator is exhausted.
EndOfStream(kind) ==
    IF kind \in ProxyKinds THEN <<[kind |-> "done", chunk |-> <<>>]>> ELSE <<>>

\* A save_message that logs the exception and does not re-raise it.
AfterSaveSwallowed(ok) == "index"

\* save_message logs and re-raises: its caller goes on only when it returned.
AfterSave(ok) == IF ok THEN "index" ELSE "raise"

\* An add_chat_to_vector_store without the try around add_texts.
AddRaisesUncaught(add_ok) == ~add_ok

\* add_chat_to_vector_store catches the exception of add_texts itself.
AddRaises(add_ok) == FALSE

\* A backend failure taken for the end of the stream.
AfterBackendFailureIgnored == "commit"

\* An exception of the backend call leaves the try block.
AfterBackendFailure == "raise"

\* "你是一个友好的AI助手。", the prompt get_character_prompt falls back to.
FallbackPrompt == <<"You are a friendly AI assistant.">>

\* What the character table answers: the row, no row, or an exception of
\* the connection or the query.
PersonaOutcomes == {"found", "missing", "failed"}

\* str(n) of a natural number.
RECURSIVE IntText(_)
IntText(n) ==
    LET digit(d) == <<"0", "1", "2", "3", "4", "5", "6", "7", "8", "9">>[d + 1]
    IN  IF n < 10 THEN <<digit(n)>> ELSE IntText(n \div 10) \o <<digit(n % 10)>>

\* The prompt built from the row of character n: "你是{name}。", then
\* "角色描述：{description}", "详细角色设定和规则：{prompt_config}" and the closing
\* sentence.
CharacterPrompt(n) ==
    <<"You are ", "name ">> \o IntText(n)
    \o <<"\n\nDescription: ", "description ">> \o IntText(n)
    \o <<"\n\nSetting and rules:\n", "prompt_config ">> \o IntText(n)
    \o <<"\n\nFollow the setting above.">>

\* A lookup that answers an empty prompt where the code falls back.
GetCharacterPromptNoFallback(character_id, outcome) ==
    IF outcome = "found" /\ IsInt(character_id)
    THEN CharacterPrompt(IntOf(character_id))
    ELSE <<>>

\* CharacterService.get_character_prompt: int(character_id) and the query
\* are inside the try block, whose except clause returns the fallback.
GetCharacterPrompt(character_id, outcome) ==
    IF outcome = "failed" \/ ~IsInt(character_id) THEN FallbackPrompt
    ELSE IF outcome = "found" THEN CharacterPrompt(IntOf(character_id))
    ELSE FallbackPrompt

\* "This is the beginning of the conversation."
NoRecentText == <<"This is the beginning of the conversation.">>

\* RAGService._build_recent_conversation
BuildRecentConversation(recent_history) ==
    IF recent_history = <<>> THEN NoRecentText
    ELSE Join([i \in 1..Len(recent_history) |->
                  <<IF recent_history[i].message_type = "user"
                    THEN "User" ELSE "Assistant", ": ">>
                  \o recent_history[i].content],
              <<"\n">>)

\* RAGService._build_messages: the prompt of the batch method.
BuildMessages(user_message, context, recent_conversation) ==
    [system |-> <<"You are an AI assistant with memory.", "Relevant history:\n">>
                \o context \o <<"Recent conversation:\n">> \o recent_conversation
                \o <<"Answer the new message from the above.", "Model: ">>,
     user |-> user_message]

\* RAGService._build_complete_messages: the prompt of the stream method.
BuildCompleteMessages(user_message, character_prompt, memory_context, recent) ==
    [system |-> <<"You must fulfill the following requirements simultaneously:",
                  "[Character Setting]\n">> \o character_prompt
                \o <<"[Memory Instructions]", "[Historical Memory]\n">>
                \o memory_context
                \o <<"[Recent Conversation]\n">> \o recent
                \o <<"Please maintain your character's personality">>,
     user |-> user_message]

\* RAGService._build_character_messages
BuildCharacterMessages(user_message, context, recent_history, character_prompt) ==
    [system |-> <<"Character setting:\n">> \o character_prompt
                \o <<"Memory context:\n">> \o BuildContextFromRetrieval(context)
                \o <<"Recent conversation:\n">> \o BuildRecentConversation(recent_history)
                \o <<"Play the character as set.">>,
     user |-> user_message]

\* The prompt a generation method builds from its lookups.
MessagesOf(kind, user_message, character_prompt, relevant_context, recent_history) ==
    IF kind = "message"
    THEN BuildMessages(user_message, BuildContextFromRetrieval(relevant_context),
                       BuildRecentConversation(recent_history))
    ELSE IF kind = "character"
    THEN BuildCharacterMessages(user_message, relevant_context, recent_history,
                                character_prompt)
    ELSE BuildCompleteMessages(user_message, character_prompt,
                               BuildContextFromRetrieval(relevant_context),
                               BuildRecentConversation(recent_history))

\* The lookups a generation method makes before the backend call, in the
\* order of its statements.
LookupsOf(kind, persona, search_ok, db_ok) ==
    (IF kind \in RagStreamKinds
     THEN <<[name |-> "persona", ok |-> persona = "found"]>> ELSE <<>>)
    \o <<[name |-> "memory", ok |-> search_ok],
         [name |-> "recency", ok |-> db_ok]>>

IdleRequest ==
    [pc |-> "idle", kind |-> "message", user_id |-> <<>>, session_id |-> <<>>,
     message |-> <<>>, character_id |-> <<>>, character_prompt |-> None,
     lookups |-> <<>>, messages |-> None, relevant_context |-> <<>>,
     recent_history |-> <<>>, complete_response |-> <<>>, pulled |-> <<>>,
     yielded |-> <<>>, forwarded |-> 0, wire |-> <<>>, commit_args |-> <<>>, saved |-> <<>>,
     upserts |-> 0, backend_failed |-> FALSE, save_failed |-> FALSE,
     add_failed |-> FALSE, store0 |-> <<>>, index0 |-> <<>>]

\* The table and the collection a request may find: empty, or one earlier
\* exchange of user 1 with character 2 written by this pipeline.
PriorRow == Row(1, 1, 2, <<"m">>, <<"a">>, K12, FALSE)

PriorChunks ==
    NewChunks(<<"1">>, K12, <<[user |-> <<"m">>, assistant |-> <<"a">>]>>, 1, 0)

Seeds ==
    {[store |-> <<>>, index |-> <<>>],
     [store |-> <<PriorRow>>, index |-> PriorChunks]}

Init ==
    /\ \E seed \in Seeds :
          /\ store = seed.store
          /\ index = seed.index
          /\ uuid = Len(seed.index)
    /\ req = [r \in Active |-> IdleRequest]
    /\ last = NoCall

\* An endpoint accepts a request.  get_session_by_id / create_session touch
\* neither the table nor the collection.
Start(r, kind, user_id, session_id, message) ==
    /\ req[r].pc = "idle"
    /\ kind = "springboot" =>
          \E c \in CharacterIds : session_id = SessionKey(user_id, c)
    /\ req' = [req EXCEPT ![r] = [IdleRequest EXCEPT
                  !.pc = "preparing", !.kind = kind, !.user_id = user_id,
                  !.session_id = session_id, !.message = message,
                  !.store0 = store, !.index0 = index]]
    /\ UNCHANGED <<store, index, uuid, last>>

\* The statements before the backend call: character id, persona lookup
\* (stream method only; generate_character_response_stream is given its
\* prompt, "" by default), memory query, recency, and the prompt built from
\* them, with which the backend is then called.
Prepare(r, persona, search_ok, db_ok) ==
    /\ req[r].pc = "preparing"
    /\ req[r].kind \notin RagStreamKinds => persona = "found"
    /\ LET character_id == ExtractCharacterId(req[r].session_id)
           character_prompt ==
               IF req[r].kind \in RagStreamKinds
               THEN GetCharacterPrompt(character_id, persona)
               ELSE IF req[r].kind = "character" THEN <<>> ELSE None
           relevant_context ==
               IF search_ok
               THEN SearchRelevantContext(
                        FilteredAnswer(index, req[r].user_id, req[r].session_id,
                                       top_k_results),
                        req[r].user_id, req[r].session_id)
               ELSE <<>>
           recent_history == GetRecentMessages(store, req[r].session_id, 10, db_ok)
       IN  req' = [req EXCEPT ![r] = [@ EXCEPT
              !.character_id = character_id,
              !.character_prompt = character_prompt,
              !.relevant_context = relevant_context,
              !.recent_history = recent_history,
              !.lookups = LookupsOf(req[r].kind, persona, search_ok, db_ok),
              !.messages = MessagesOf(req[r].kind, req[r].message, character_prompt,
                                      relevant_context, recent_history),
              !.pc = IF req[r].kind = "message" THEN "generating" ELSE "streaming"]]
    /\ UNCHANGED <<store, index, uuid, last>>

\* An except clause after which the generator goes on with the stream.
RaisedResumes(q) == [q EXCEPT !.pc = "streaming"]

\* An except clause that runs the commit again.
RaisedRetries(q) == [q EXCEPT !.pc = "commit"]

\* An except clause that ends the request without telling the caller.
RaisedSilently(q) == [q EXCEPT !.pc = "failed"]

\* An exception reaches the except clause of the generation method: the batch
\* method re-raises (the endpoint answers 500), a generator yields an error item.
Raised(q) ==
    IF q.kind = "message"
    THEN [q EXCEPT !.pc = "failed",
                   !.wire = @ \o <<[kind |-> "http500", chunk |-> <<>>]>>]
    ELSE [q EXCEPT !.pc = "yielded", !.yielded = Append(@, ErrorItem)]

\* The language-model call is over and the response is accumulated.
ToCommit(q) == [q EXCEPT !.pc = "commit"]

\* chat_completion returns.
Complete(r, response) ==
    /\ req[r].pc = "generating"
    /\ req' = [req EXCEPT ![r] = ToCommit([@ EXCEPT !.complete_response = response])]
    /\ UNCHANGED <<store, index, uuid, last>>

\* chat_completion raises (status error, timeout, transport error).
CompleteFail(r) ==
    /\ req[r].pc = "generating"
    /\ req' = [req EXCEPT ![r] =
                  LET q == [@ EXCEPT !.backend_failed = TRUE]
                  IN  IF AfterBackendFailure = "raise" THEN Raised(q) ELSE ToCommit(q)]
    /\ UNCHANGED <<store, index, uuid, last>>

\* A generator that pulls the next fragment while the item of the last one
\* is still with the consumer.
FragmentAhead(r, chunk) ==
    /\ req[r].pc \in {"streaming", "yielded"}
    /\ ~req[r].backend_failed
    /\ Len(req[r].pulled) < MaxFragments
    /\ req' = [req EXCEPT ![r] = [@ EXCEPT
          !.pulled = Append(@, chunk),
          !.complete_response = Accumulate(@, chunk),
          !.yielded = Append(@, StreamItem(chunk)),
          !.pc = "yielded"]]
    /\ UNCHANGED <<store, index, uuid, last>>

\* The backend's stream delivers a fragment: accumulate it and yield its item.
Fragment(r, chunk) ==
    /\ req[r].pc = "streaming"
    /\ Len(req[r].pulled) < MaxFragments
    /\ req' = [req EXCEPT ![r] = [@ EXCEPT
          !.pulled = Append(@, chunk),
          !.complete_response = Accumulate(@, chunk),
          !.yielded = Append(@, StreamItem(chunk)),
          !.pc = "yielded"]]
    /\ UNCHANGED <<store, index, uuid, last>>

\* The consumer of the generator handles the yielded item and asks for the
\* next one; after the error item the generator returns.
Forward(r) ==
    /\ req[r].pc = "yielded"
    /\ LET item == req[r].yielded[Len(req[r].yielded)]
       IN  req' = [req EXCEPT ![r] =
                IF item.kind = "error"
                THEN [@ EXCEPT !.wire = @ \o WireOf(req[r].kind, item)
                                         \o EndOfStream(req[r].kind),
                               !.pc = "failed"]
                ELSE [@ EXCEPT !.wire = @ \o WireOf(req[r].kind, item),
                               !.forwarded = @ + 1,
                               !.pc = "streaming"]]
    /\ UNCHANGED <<store, index, uuid, last>>

\* The backend's stream ends ([DONE], or the response is exhausted).
StreamEnd(r) ==
    /\ req[r].pc = "streaming"
    /\ req' = [req EXCEPT ![r] = ToCommit(@)]
    /\ UNCHANGED <<store, index, uuid, last>>

\* The backend's stream raises, before the first fragment or after some.
StreamFail(r) ==
    /\ req[r].pc = "streaming"
    /\ req' = [req EXCEPT ![r] =
                  LET q == [@ EXCEPT !.backend_failed = TRUE]
                  IN  IF AfterBackendFailure = "raise" THEN Raised(q) ELSE ToCommit(q)]
    /\ UNCHANGED <<store, index, uuid, last>>

\* The consumer goes away while the generator is suspended: GeneratorExit or
\* CancelledError is raised in it, which "except Exception" does not catch.
Cancel(r) ==
    /\ req[r].kind \in StreamKinds
    /\ req[r].pc \in {"streaming", "yielded"}
    /\ req' = [req EXCEPT ![r] = [@ EXCEPT !.pc = "cancelled"]]
    /\ UNCHANGED <<store, index, uuid, last>>

\* save_message(user_id, character_id, message, complete_response)
Save(r, db_ok) ==
    /\ req[r].pc = "commit"
    /\ LET q == req[r]
           ok == db_ok /\ SaveArgsOk(q.user_id, q.character_id)
           called == [q EXCEPT !.commit_args = Append(@, q.complete_response)]
       IN  IF ok
           THEN /\ store' = SaveMessage(store, q.user_id, q.character_id,
                                        q.message, q.complete_response)
                /\ req' = [req EXCEPT ![r] =
                              [called EXCEPT !.saved = Append(@, Len(store) + 1),
                                             !.pc = "index"]]
           ELSE /\ store' = store
                /\ req' = [req EXCEPT ![r] =
                              LET f == [called EXCEPT !.save_failed = TRUE]
                              IN  IF AfterSave(ok) = "raise"
                                  THEN Raised(f)
                                  ELSE [f EXCEPT !.pc = "index"]]
    /\ UNCHANGED <<index, uuid, last>>

\* add_chat_to_vector_store(user_id, session_id, [{user, assistant}]), then
\* (stream path) the search that only prints, then the method ends.
IndexWrite(r, add_ok) ==
    /\ req[r].pc = "index"
    /\ LET q == req[r]
           pair == [user |-> q.message, assistant |-> q.complete_response]
           tried == [q EXCEPT !.upserts = @ + 1, !.add_failed = ~add_ok]
       IN  /\ index' = AddChatToVectorStore(index, uuid, q.user_id, q.session_id,
                                            <<pair>>, add_ok)
           /\ uuid' = uuid + Len(SplitText(DocContent(pair)))
           /\ req' = [req EXCEPT ![r] =
                  IF AddRaises(add_ok) /\ q.kind \notin RagStreamKinds
                  THEN Raised(tried)
                  ELSE IF q.kind = "message"
                  THEN [tried EXCEPT !.pc = "done",
                            !.wire = @ \o <<[kind |-> "response",
                                             chunk |-> q.complete_response]>>]
                  ELSE [tried EXCEPT !.pc = "done",
                                     !.wire = @ \o EndOfStream(q.kind)]]
    /\ UNCHANGED <<store, last>>

Next ==
    \E r \in Active :
        \/ \E kind \in Kinds, u \in UserIds, s \in SessionIds \cup {K11, Kx1},
              m \in Messages : Start(r, kind, u, s, m)
        \/ \E persona \in PersonaOutcomes, search_ok \in BOOLEAN, db_ok \in BOOLEAN :
              Prepare(r, persona, search_ok, db_ok)
        \/ \E response \in Completions : Complete(r, response)
        \/ CompleteFail(r)
        \/ \E chunk \in Fragments : Fragment(r, chunk)
        \/ Forward(r)
        \/ StreamEnd(r)
        \/ StreamFail(r)
        \/ Cancel(r)
        \/ \E db_ok \in BOOLEAN : Save(r, db_ok)
        \/ \E add_ok \in BOOLEAN : IndexWrite(r, add_ok)

Spec == Init /\ [][Next]_vars

(***************************************************************************)
(* Two concurrent stream requests to one session key                       *)
(***************************************************************************)
\* The requests are coroutines of one event loop: a step runs from one
\* suspension point (an await that waits, a yield) to the next, and the
\* steps of the two requests interleave in any order.
PairRequests == {1, 2}

\* The message of each request, and the fragments the backend sends it.
PairMessage(r) == IF r = 1 THEN <<"m">> ELSE <<"x">>

PairFragments(r) == IF r = 1 THEN {<<"a">>} ELSE {<<"b">>}

InitPair ==
    /\ store = <<>>
    /\ index = <<>>
    /\ uuid = 0
    /\ req = [r \in PairRequests |-> IdleRequest]
    /\ last = NoCall

NextPair ==
    \E r \in PairRequests :
        \/ Start(r, "message_stream", <<"1">>, K12, PairMessage(r))
        \/ \E persona \in PersonaOutcomes, search_ok \in BOOLEAN, db_ok \in BOOLEAN :
              Prepare(r, persona, search_ok, db_ok)
        \/ \E chunk \in PairFragments(r) : Fragment(r, chunk)
        \/ Forward(r)
        \/ StreamEnd(r)
        \/ StreamFail(r)
        \/ Cancel(r)
        \/ \E db_ok \in BOOLEAN : Save(r, db_ok)
        \/ \E add_ok \in BOOLEAN : IndexWrite(r, add_ok)

SpecPair == InitPair /\ [][NextPair]_vars

(***************************************************************************)
(* A session-delete request next to a stream request                       *)
(***************************************************************************)
\* The status of DELETE /session/{session_id}.  When delete_session returns
\* False the endpoint raises HTTPException(404) inside its try block, whose
\* "except Exception" catches it and raises HTTPException(500).
DeleteStatus(session_exists) == IF session_exists THEN 200 ELSE 500

\* The table and the collection after the endpoint: delete_session first,
\* and delete_session_vectors only when it returned True.
DeleteRequestStores(st, idx, session_id, session_exists, del_ok) ==
    IF session_exists
    THEN [store |-> DeleteSessionRows(st, session_id, TRUE),
          index |-> DeleteSessionVectors(idx, session_id, del_ok)]
    ELSE [store |-> st, index |-> idx]

\* The requests that are between their start and their commit for a session.
InFlight(session_id) ==
    {r \in DOMAIN req :
        /\ req[r].session_id = session_id
        /\ req[r].pc \in {"preparing", "streaming", "yielded", "commit", "index"}}

\* The requests for a session that are suspended in their stream: at the
\* await of the next fragment or at the yield of the last one.
Streaming(session_id) ==
    {r \in DOMAIN req :
        /\ req[r].session_id = session_id
        /\ req[r].pc \in {"streaming", "yielded"}}

\* DELETE /session/{session_id}.  session_exists is whether chat_sessions
\* holds a row of the session: no statement of this repository adds one
\* (create_session builds an object and stores nothing).
DeleteSessionRequest(session_id, session_exists, del_ok) ==
    /\ store' = DeleteRequestStores(store, index, session_id, session_exists,
                                    del_ok).store
    /\ index' = DeleteRequestStores(store, index, session_id, session_exists,
                                    del_ok).index
    /\ last' = [op |-> "delete_request",
                args |-> [session_id |-> session_id,
                          session_exists |-> session_exists, del_ok |-> del_ok],
                raw |-> <<>>,
                result |-> DeleteStatus(session_exists),
                before |-> [store |-> store, index |-> index],
                during |-> InFlight(session_id),
                streaming |-> Streaming(session_id)]
    /\ UNCHANGED <<uuid, req>>

NextDelete ==
    \/ \E r \in Active :
          \/ \E s \in {K12, K11} : Start(r, "message_stream", <<"1">>, s, <<"m">>)
          \/ \E search_ok \in BOOLEAN, db_ok \in BOOLEAN :
                Prepare(r, "found", search_ok, db_ok)
          \/ \E chunk \in Fragments : Fragment(r, chunk)
          \/ Forward(r)
          \/ StreamEnd(r)
          \/ StreamFail(r)
          \/ Cancel(r)
          \/ \E db_ok \in BOOLEAN : Save(r, db_ok)
          \/ \E add_ok \in BOOLEAN : IndexWrite(r, add_ok)
    \/ \E s \in {K12, K11}, session_exists \in BOOLEAN, del_ok \in BOOLEAN :
          DeleteSessionRequest(s, session_exists, del_ok)

SpecDelete == Init /\ [][NextDelete]_vars

(***************************************************************************)
(* Rebuilding the collection from the table                                *)
(***************************************************************************)
\* The conversation pairs migrate_session_to_vector makes of the rows of a
\* session: the rows not soft-deleted, in the order of created_at, whose
\* message and response are not empty and whose response is not the sentinel.
MigratePairs(st, session_id) ==
    LET P == {i \in 1..Len(st) :
                 /\ st[i].session_id = session_id
                 /\ ~st[i].is_deleted
                 /\ Truthy(st[i].message)
                 /\ Truthy(st[i].response)
                 /\ st[i].response # Sentinel}
        rows == SelectIdx(st, P, 1)
    IN  [i \in 1..Len(rows) |->
            [user |-> rows[i].message, assistant |-> rows[i].response]]

\* session_id.split('_')[1] if '_' in session_id else "1"
MigrateUserId(session_id) ==
    IF \E i \in 1..Len(session_id) : session_id[i] = "_"
    THEN Split(session_id)[2]
    ELSE <<"1">>

\* A migration that writes nothing.
MigrateNothing(idx, u, st, session_id, db_ok, add_ok) == idx

\* migrate_session_to_vector: the collection afterwards.  db_ok is whether
\* the query of the table works; its exception is caught and printed.
MigrateSessionToVector(idx, u, st, session_id, db_ok, add_ok) ==
    IF db_ok /\ MigratePairs(st, session_id) # <<>>
    THEN AddChatToVectorStore(idx, u, MigrateUserId(session_id), session_id,
                              MigratePairs(st, session_id), add_ok)
    ELSE idx

\* The conversations sync_chat_history_to_vector_store makes of the rows of
\* a user and a character: the limit newest rows, whatever their is_deleted
\* flag and their response, oldest first.
SyncConversations(st, user_id, character_id, limit) ==
    LET P == {i \in 1..Len(st) :
                 /\ st[i].user_id = IntOf(user_id)
                 /\ st[i].character_id = IntOf(character_id)}
        rows == Reverse(QueryDesc(st, P, limit))
    IN  [i \in 1..Len(rows) |->
            [user |-> rows[i].message, assistant |-> rows[i].response]]

\* Whether VectorStoreService has the method add_conversation_to_vector_store
\* that the sync service calls: the class defines add_chat_to_vector_store,
\* search_relevant_context and delete_session_vectors only.
HasAddConversationToVectorStore == FALSE

\* sync_chat_history_to_vector_store: the collection afterwards.  The call
\* of the missing method raises AttributeError, which the except clause of
\* the method logs.
SyncChatHistoryToVectorStore(idx, u, st, user_id, character_id, limit) ==
    IF /\ SyncConversations(st, user_id, character_id, limit) # <<>>
       /\ HasAddConversationToVectorStore
    THEN AddChatToVectorStore(idx, u, user_id, SessionKey(user_id, character_id),
                              SyncConversations(st, user_id, character_id, limit),
                              TRUE)
    ELSE idx

\* A run of the migration script for one session.
Migrate(session_id, db_ok, add_ok) ==
    LET pairs == IF db_ok THEN MigratePairs(store, session_id) ELSE <<>>
    IN  /\ uuid + Len(pairs) <= MaxUuid
        /\ index' = MigrateSessionToVector(index, uuid, store, session_id, db_ok, add_ok)
        /\ uuid' = uuid + Len(pairs)
        /\ last' = [op |-> "migrate",
                    args |-> [session_id |-> session_id, db_ok |-> db_ok,
                              add_ok |-> add_ok],
                    raw |-> pairs, result |-> <<>>, before |-> index]
        /\ UNCHANGED <<store, req>>

\* A run of the sync service for one user and character.
Sync(user_id, character_id, limit) ==
    /\ index' = SyncChatHistoryToVectorStore(index, uuid, store, user_id,
                                             character_id, limit)
    /\ last' = [op |-> "sync",
                args |-> [session_id |-> SessionKey(user_id, character_id),
                          db_ok |-> TRUE, add_ok |-> TRUE],
                raw |-> SyncConversations(store, user_id, character_id, limit),
                result |-> IF HasAddConversationToVectorStore
                           THEN Len(SyncConversations(store, user_id, character_id,
                                                      limit))
                           ELSE 0,
                before |-> index]
    /\ UNCHANGED <<store, uuid, req>>

NextReconcile ==
    \/ \E c \in CharacterIds, m \in Messages, a \in StoredResponses,
          has_key \in BOOLEAN, is_deleted \in BOOLEAN :
          ExtInsert(c, m, a, has_key, is_deleted)
    \/ \E u \in UserIds, c \in CharacterIds, m \in Messages, a \in Assistants :
          StoreSave(u, c, m, a)
    \/ \E s \in RecentKeys, db_ok \in BOOLEAN, add_ok \in BOOLEAN :
          Migrate(s, db_ok, add_ok)
    \/ \E c \in CharacterIds, limit \in Limits : Sync(<<"1">>, c, limit)

SpecReconcile == InitStore /\ [][NextReconcile]_vars

(***************************************************************************)
(* Properties                                                              *)
(***************************************************************************)
RECURSIVE ChunksOf(_)
\* The fragments carried by a sequence of items, in order.
ChunksOf(items) ==
    IF items = <<>> THEN <<>>
    ELSE (IF Head(items).kind \in {"chunk", "data"} THEN <<Head(items).chunk>> ELSE <<>>)
         \o ChunksOf(Tail(items))

NonEmpty(ss) == SelectIdx(ss, {i \in 1..Len(ss) : ss[i] # <<>>}, 1)

HasKind(items, k) == \E i \in 1..Len(items) : items[i].kind = k

\* The generator of a stream request ran to the end of the backend's stream.
StreamOver(q) ==
    /\ q.kind \in StreamKinds
    /\ ~q.backend_failed
    /\ q.pc \in {"commit", "index", "done"} \/ q.save_failed

\* C1: every item a query for (user_id, session_id) returns carries exactly
\* that user and that session in its metadata, whatever the collection holds
\* and whatever the engine answered; a candidate that does not is dropped.
C1_FilterCorrect ==
    (last.op = "query" /\ last.args.session_id # None) =>
        /\ \A i \in 1..Len(last.result) :
              /\ last.result[i].metadata.user_id = last.args.user_id
              /\ last.result[i].metadata.session_id = last.args.session_id
        /\ \A j \in 1..Len(last.raw) :
              (last.raw[j].user_id # last.args.user_id
                  \/ last.raw[j].session_id # last.args.session_id)
              => \A i \in 1..Len(last.result) : last.result[i].metadata # last.raw[j]

\* A query whose engine answered with a matching and a mismatching candidate.
C1_Witness ==
    /\ last.op = "query"
    /\ last.args.session_id # None
    /\ Len(last.result) >= 1
    /\ Len(last.raw) > Len(last.result)

\* C2: a stream cancelled after at least one delivered fragment still makes
\* exactly one append to the table, whose response is the concatenation of the
\* delivered fragments.
C2_CancelStillCommits ==
    \A r \in DOMAIN req :
        (req[r].pc = "cancelled" /\ Len(ChunksOf(req[r].yielded)) >= 1) =>
            /\ Len(req[r].saved) = 1
            /\ store[req[r].saved[1]].response = Concat(ChunksOf(req[r].yielded))

\* C3 as stated: once the backend's stream has ended without failure, what
\* the HTTP caller was sent is exactly the backend's fragments, in order, and
\* save_message is given their concatenation.
C3_ForwardsEveryFragment ==
    \A r \in DOMAIN req :
        StreamOver(req[r]) =>
            /\ ChunksOf(req[r].wire) = req[r].pulled
            /\ req[r].pc # "commit" => req[r].commit_args = <<Concat(req[r].pulled)>>

\* C3 as amended: the generator yields exactly the backend's fragments, in
\* order, and save_message is given their concatenation; the springboot
\* and authenticated endpoints relay the non-empty fragments, in order, and
\* the other consumers relay every fragment.
C3_ForwardsInOrder ==
    \A r \in DOMAIN req :
        StreamOver(req[r]) =>
            /\ ChunksOf(req[r].yielded) = req[r].pulled
            /\ ChunksOf(req[r].wire) =
                  IF req[r].kind \in ProxyKinds THEN NonEmpty(req[r].pulled)
                  ELSE req[r].pulled
            /\ req[r].pc # "commit" => req[r].commit_args = <<Concat(req[r].pulled)>>

\* A finished springboot stream of two different fragments.
C3_Witness ==
    \E r \in DOMAIN req :
        /\ req[r].pc = "done"
        /\ req[r].kind = "springboot"
        /\ Len(req[r].pulled) = 2
        /\ req[r].pulled[1] # req[r].pulled[2]
        /\ NonEmpty(req[r].pulled) = req[r].pulled

\* C4: in every generation path add_chat_to_vector_store is called for an
\* exchange only after save_message has added that exchange to the table.
C4_UpsertAfterAppend ==
    \A r \in DOMAIN req :
        req[r].upserts > 0 =>
            /\ ~req[r].save_failed
            /\ Len(req[r].saved) = 1
            /\ req[r].saved[1] \in 1..Len(store)
            /\ store[req[r].saved[1]].message = req[r].message
            /\ store[req[r].saved[1]].response = req[r].complete_response

\* A character stream that wrote its exchange to the collection.
C4_Witness ==
    \E r \in DOMAIN req :
        /\ req[r].kind = "character"
        /\ req[r].upserts = 1
        /\ Len(index) > Len(req[r].index0)

\* C5: when the append succeeded and the write to the collection fails, the
\* request still ends normally: the batch call returns its response, a stream
\* ends without an error item, and the row stays in the table.
C5_IndexFailureAbsorbed ==
    \A r \in DOMAIN req :
        req[r].add_failed =>
            /\ req[r].pc = "done"
            /\ ~HasKind(req[r].yielded, "error")
            /\ ~HasKind(req[r].wire, "http500")
            /\ req[r].kind = "message" =>
                  req[r].wire = <<[kind |-> "response",
                                   chunk |-> req[r].complete_response]>>
            /\ Len(req[r].saved) = 1
            /\ store[req[r].saved[1]].response = req[r].complete_response
            /\ index = req[r].index0

\* A batch request whose write to the collection failed.
C5_Witness ==
    \E r \in DOMAIN req :
        /\ req[r].kind = "message"
        /\ req[r].add_failed
        /\ req[r].pc = "done"

\* C6: when save_message fails after the generation, the request fails with
\* an error for its caller, add_chat_to_vector_store is never called, table
\* and collection are as the request found them, and the fragments already
\* yielded and relayed stay as they were.
C6_AppendFailureFailsCommit ==
    \A r \in DOMAIN req :
        req[r].save_failed =>
            /\ req[r].upserts = 0
            /\ req[r].saved = <<>>
            /\ store = req[r].store0
            /\ index = req[r].index0
            /\ req[r].pc \in {"yielded", "failed", "cancelled"}
            /\ req[r].kind = "message" => req[r].wire = <<[kind |-> "http500",
                                                           chunk |-> <<>>]>>
            /\ req[r].kind \in StreamKinds =>
                  /\ req[r].yielded =
                        [i \in 1..Len(req[r].pulled) |-> StreamItem(req[r].pulled[i])]
                        \o <<ErrorItem>>
                  /\ ChunksOf(req[r].wire) =
                        IF req[r].kind \in ProxyKinds THEN NonEmpty(req[r].pulled)
                        ELSE req[r].pulled

\* A stream that relayed a fragment and then failed to save.
C6_Witness ==
    \E r \in DOMAIN req :
        /\ req[r].save_failed
        /\ req[r].kind = "message_stream"
        /\ req[r].pc = "failed"
        /\ Len(req[r].pulled) >= 1
        /\ Len(req[r].wire) = Len(req[r].pulled) + 1

\* C7: when the backend call fails before its first fragment, the request
\* fails with an error for its caller and neither save_message nor
\* add_chat_to_vector_store is called: table and collection are unchanged.
C7_BackendFailureNoPersistence ==
    \A r \in DOMAIN req :
        (req[r].backend_failed /\ req[r].pulled = <<>>) =>
            /\ req[r].commit_args = <<>>
            /\ req[r].saved = <<>>
            /\ req[r].upserts = 0
            /\ store = req[r].store0
            /\ index = req[r].index0
            /\ req[r].pc \in {"yielded", "failed", "cancelled"}
            /\ req[r].kind = "message" => req[r].wire = <<[kind |-> "http500",
                                                           chunk |-> <<>>]>>
            /\ req[r].kind \in StreamKinds => req[r].yielded = <<ErrorItem>>

\* A stream whose backend call failed at once, after the error item.
C7_Witness ==
    \E r \in DOMAIN req :
        /\ req[r].backend_failed
        /\ req[r].pulled = <<>>
        /\ req[r].kind \in StreamKinds
        /\ req[r].pc = "failed"

\* C8: get_recent_messages never returns an entry of a row whose response is
\* the in-flight sentinel or whose is_deleted flag is set.
C8_RecentSkipsSentinelAndDeleted ==
    last.op = "recent" =>
        \A i \in 1..Len(last.result) :
            LET row == store[last.result[i].timestamp]
            IN  row.response # Sentinel /\ ~row.is_deleted

\* C9: every entry get_recent_messages(session_id, limit) returns comes from
\* a row whose session_id column equals session_id.
C9_RecentScopedBySessionKey ==
    last.op = "recent" =>
        \A i \in 1..Len(last.result) :
            store[last.result[i].timestamp].session_id = last.args.session_id

\* C10: the session_id stored on the row a request appends equals the
\* session_id the request used for its memory query, its recency read and the
\* metadata of the chunks it writes.
C10_OneSessionKeyPerRequest ==
    \A r \in DOMAIN req :
        Len(req[r].saved) = 1 =>
            store[req[r].saved[1]].session_id = req[r].session_id

\* The token structure user_<U>_character_<C> of a session key, with U and C
\* not empty.
MatchesKeyStructure(session_id) ==
    LET parts == Split(session_id)
    IN  /\ Len(parts) = 4
        /\ parts[1] = <<"user">> /\ parts[2] # <<>>
        /\ parts[3] = <<"character">> /\ parts[4] # <<>>

\* A key user_<U> whose character segment is absent.
CharacterSegmentAbsent(session_id) ==
    LET parts == Split(session_id)
    IN  Len(parts) = 2 /\ parts[1] = <<"user">> /\ parts[2] # <<>>

\* C11: the character identifier extracted from the key create_session built
\* for (u, c) is c, and no other pair of identifiers yields the same key.
C11_KeyRoundTrip ==
    /\ last.op = "round_trip" =>
          /\ ~last.result.raised
          /\ last.result.value = last.args.character_id
    /\ last.op = "create_session" =>
          \A u \in Identifiers, c \in Identifiers :
              SessionKey(u, c) = last.result =>
                  u = last.args.user_id /\ c = last.args.character_id

\* C12: the extraction raises for every session id that does not have the
\* structure user_<U>_character_<C>, except that a key user_<U> without its
\* character segment is answered with the default character identifier.
C12_MalformedKeyRejected ==
    last.op \in {"extract", "round_trip"} =>
        IF MatchesKeyStructure(last.args.session_id)
        THEN ~last.result.raised
        ELSE IF CharacterSegmentAbsent(last.args.session_id)
        THEN ~last.result.raised /\ last.result.value = DefaultCharacterId
        ELSE last.result.raised

\* The lookups of a request are behind it: the memory query and the recency
\* read have been made, and perhaps the backend call and the commit.
LookupsDone(q) ==
    \/ q.pc \in {"generating", "streaming", "yielded", "commit", "index", "done",
                 "cancelled"}
    \/ q.backend_failed
    \/ q.commit_args # <<>>

\* C13: a request whose user identifier int() cannot parse never gets as far
\* as its memory query, recency read, backend call or save_message call.
C13_MalformedIdRejectedBeforeIO ==
    \A r \in DOMAIN req :
        (req[r].pc # "idle" /\ ~IsInt(req[r].user_id)) => ~LookupsDone(req[r])

\* The language-model call of a request ended without failure and the
\* request has gone through its commit.
CommitOver(q) ==
    /\ ~q.backend_failed
    /\ q.pc \in {"index", "done"} \/ q.save_failed

EmptyExchangeChunks ==
    UNION {{SplitText(DocContent([user |-> m, assistant |-> a]))[j] :
               j \in 1..Len(SplitText(DocContent([user |-> m, assistant |-> a])))} :
           m \in Messages, a \in {<<>>, Sentinel}}

\* C15: the collection never holds a chunk of an exchange whose assistant
\* text is empty or the in-flight sentinel.
C15_NoEmptyExchangeIndexed ==
    \A i \in 1..Len(index) : index[i].content \notin EmptyExchangeChunks

MatchingCount(idx, user_id, session_id) ==
    Cardinality({i \in 1..Len(idx) : FilterMatches(idx[i], user_id, session_id)})

\* The engine kept its contract: it returned documents that pass the filter,
\* k of them, or all of them when fewer than k pass.
ConformingAnswer(raw, idx, user_id, session_id, k) ==
    /\ \A j \in 1..Len(raw) : FilterMatches(raw[j], user_id, session_id)
    /\ Len(raw) = IF MatchingCount(idx, user_id, session_id) < k
                  THEN MatchingCount(idx, user_id, session_id)
                  ELSE k

\* A query made right after an upsert that was stored, for the same user and
\* session, and answered by the engine within its contract.
QueryAfterUpsert ==
    /\ last.op = "query"
    /\ last.before.op = "upsert"
    /\ last.before.args.add_ok
    /\ last.before.args.user_id = last.args.user_id
    /\ last.before.args.session_id = last.args.session_id
    /\ last.args.k >= 1
    /\ ConformingAnswer(last.raw, index, last.args.user_id, last.args.session_id,
                        last.args.k)

\* The result of the last query holds a chunk of the upsert before it.
ReturnsNewChunk ==
    \E i \in 1..Len(last.result) :
        \E j \in 1..Len(last.before.raw) :
            last.result[i].metadata = last.before.raw[j]

\* The result of the last query holds a chunk with the text of a chunk of the
\* upsert before it.
ReturnsChunkOfExchange ==
    \E i \in 1..Len(last.result) :
        \E j \in 1..Len(last.before.raw) :
            last.result[i].content = last.before.raw[j].content

C18_BlockWithinCeiling ==
    last.op \in {"build_context", "optimize_context"} =>
        CountTokens(last.result) <= last.args.ceiling

\* C19: with no retrieved item both renderings return their fixed
\* placeholder, which is not the empty string, and the rendering the
\* generation paths use never returns the empty string.
C19_PlaceholderWhenEmpty ==
    /\ last.op = "build_context" =>
          /\ last.result # <<>>
          /\ last.args.relevant_context = <<>> => last.result = NoContextText
    /\ (last.op = "optimize_context" /\ last.args.relevant_context = <<>>) =>
          last.result = NoContextTextOptimized /\ last.result # <<>>

\* The generation paths' rendering of an empty retrieval.
C19_Witness ==
    /\ last.op = "build_context"
    /\ last.args.relevant_context = <<>>
    /\ last.result = NoContextText

\* The phase of a request.  PREPARING: the lookups.  STREAMING: from the
\* backend call until the method has run its commit.  COMPLETED: the method
\* returned normally.  FAILED: the except clause was entered, or the consumer
\* went away.
Phase(q) ==
    IF q.pc = "idle" THEN "NONE"
    ELSE IF q.pc = "preparing" THEN "PREPARING"
    ELSE IF q.pc \in {"generating", "streaming", "commit", "index"} THEN "STREAMING"
    ELSE IF q.pc = "yielded"
    THEN (IF q.yielded[Len(q.yielded)].kind = "chunk" THEN "STREAMING" ELSE "FAILED")
    ELSE IF q.pc = "done" THEN "COMPLETED"
    ELSE "FAILED"

PhaseMoves ==
    {<<"NONE", "PREPARING">>, <<"PREPARING", "STREAMING">>,
     <<"STREAMING", "COMPLETED">>, <<"STREAMING", "FAILED">>}

CountKind(items, k) == Cardinality({i \in 1..Len(items) : items[i].kind = k})

\* C21: what a streaming endpoint has sent when its request is over: after a
\* success no error item, and on the endpoints that send [DONE] exactly one
\* [DONE], as the last item; after a failure exactly one error item, as the
\* last item, and no [DONE].
C21_OneTerminalItem ==
    \A r \in DOMAIN req :
        (req[r].kind \in RagStreamKinds /\ req[r].pc \in {"done", "failed"}) =>
            IF req[r].pc = "done"
            THEN /\ CountKind(req[r].wire, "error") = 0
                 /\ req[r].kind \in ProxyKinds =>
                       /\ CountKind(req[r].wire, "done") = 1
                       /\ req[r].wire[Len(req[r].wire)].kind = "done"
            ELSE /\ CountKind(req[r].wire, "error") = 1
                 /\ CountKind(req[r].wire, "done") = 0
                 /\ req[r].wire[Len(req[r].wire)].kind = "error"

\* C22: with two requests to one session key interleaved in any order, the
\* accumulator of each holds exactly the fragments the backend sent to it;
\* a request that got through its commit has one row of its own, with its
\* message and its accumulated response; the two rows are different rows and
\* the table holds exactly the rows the requests appended.
C22_ConcurrentRequestsKeepTheirOwn ==
    /\ \A r \in DOMAIN req :
          /\ req[r].complete_response = Concat(req[r].pulled)
          /\ \A i \in 1..Len(req[r].pulled) : req[r].pulled[i] \in PairFragments(r)
          /\ Len(req[r].saved) <= 1
          /\ req[r].pc \in {"index", "done"} => Len(req[r].saved) = 1
          /\ Len(req[r].saved) = 1 =>
                /\ req[r].saved[1] \in 1..Len(store)
                /\ store[req[r].saved[1]].message = PairMessage(r)
                /\ store[req[r].saved[1]].response = Concat(req[r].pulled)
                /\ store[req[r].saved[1]].session_id = req[r].session_id
    /\ \A r1 \in DOMAIN req, r2 \in DOMAIN req :
          (r1 # r2 /\ Len(req[r1].saved) = 1 /\ Len(req[r2].saved) = 1) =>
              req[r1].saved[1] # req[r2].saved[1]
    /\ Len(store) = Cardinality({r \in DOMAIN req : Len(req[r].saved) = 1})

\* Both requests streamed at the same time and both are done; the request
\* that started second appended first.
C22_Witness ==
    /\ req[1].pc = "done" /\ req[2].pc = "done"
    /\ Len(req[1].pulled) = 2 /\ Len(req[2].pulled) = 2
    /\ req[1].recent_history = <<>> /\ req[2].recent_history = <<>>
    /\ req[2].saved = <<1>> /\ req[1].saved = <<2>>

\* Whether a request has made the lookup of that name, and whether it failed.
LookedUp(q, name) == \E i \in 1..Len(q.lookups) : q.lookups[i].name = name

LookupFailed(q, name) ==
    \E i \in 1..Len(q.lookups) : q.lookups[i].name = name /\ ~q.lookups[i].ok

\* The backend call of a request has been issued.
BackendCalled(q) == q.pc \notin {"idle", "preparing"}

\* C23: a lookup that fails does not fail the request: the backend is called
\* with the fallback persona, the empty retrieval or the empty recency window
\* in place of the failed lookup, and a request only fails by its backend
\* call or its append; such a failure is never followed by a normal end, and
\* it reaches the consumer as an error item (HTTP 500 on the batch endpoint).
C23_LookupFailuresAbsorbed ==
    \A r \in DOMAIN req :
        LET q == req[r]
        IN  /\ BackendCalled(q) =>
                  /\ LookupFailed(q, "persona") => q.character_prompt = FallbackPrompt
                  /\ LookupFailed(q, "memory") => q.relevant_context = <<>>
                  /\ LookupFailed(q, "recency") => q.recent_history = <<>>
                  /\ q.messages = MessagesOf(q.kind, q.message, q.character_prompt,
                                             q.relevant_context, q.recent_history)
            /\ q.pc = "failed" => (q.backend_failed \/ q.save_failed)
            /\ (q.backend_failed \/ q.save_failed) =>
                  /\ q.pc \in {"yielded", "failed", "cancelled"}
                  /\ q.pc \in {"yielded", "failed"} =>
                        IF q.kind = "message"
                        THEN HasKind(q.wire, "http500")
                        ELSE q.yielded # <<>> /\ q.yielded[Len(q.yielded)] = ErrorItem

\* All three lookups of a stream request failed, with an earlier exchange in
\* the table and the collection, and the request ended normally.
C23_Witness ==
    \E r \in DOMAIN req :
        /\ req[r].pc = "done"
        /\ req[r].kind \in RagStreamKinds
        /\ req[r].session_id = K12 /\ req[r].user_id = <<"1">>
        /\ req[r].store0 # <<>> /\ req[r].index0 # <<>>
        /\ LookupFailed(req[r], "persona")
        /\ LookupFailed(req[r], "memory")
        /\ LookupFailed(req[r], "recency")
        /\ req[r].complete_response # <<>>

\* C24: when the backend call of a request has been issued, the persona
\* lookup, the memory query and the recency fetch of that request are all
\* over, and the prompt is the one assembled from their results and the
\* message.
C24_AllLookupsBeforeGeneration ==
    \A r \in DOMAIN req :
        (req[r].kind \in {"message"} \cup RagStreamKinds /\ BackendCalled(req[r])) =>
            /\ LookedUp(req[r], "persona")
            /\ LookedUp(req[r], "memory")
            /\ LookedUp(req[r], "recency")
            /\ req[r].messages =
                   BuildCompleteMessages(req[r].message, req[r].character_prompt,
                       BuildContextFromRetrieval(req[r].relevant_context),
                       BuildRecentConversation(req[r].recent_history))

\* The positions of the limit most recent rows of a session that are not
\* soft-deleted.
MostRecentLive(st, session_id, limit) ==
    LET live == {i \in 1..Len(st) :
                    st[i].session_id = session_id /\ ~st[i].is_deleted}
    IN  {i \in live : Cardinality({j \in live : j > i}) < limit}

\* Entries in ascending order of their rows, the user entry of a row before
\* its assistant entry, at most two entries of a row, at most 2*limit in all.
ChronologicalEntries(entries, limit) ==
    /\ \A i \in 1..Len(entries), j \in 1..Len(entries) :
          i < j =>
              /\ entries[i].timestamp <= entries[j].timestamp
              /\ entries[i].timestamp = entries[j].timestamp =>
                    /\ entries[i].message_type = "user"
                    /\ entries[j].message_type = "assistant"
    /\ \A i \in 1..Len(entries) :
          Cardinality({j \in 1..Len(entries) :
                          entries[j].timestamp = entries[i].timestamp}) <= 2
    /\ Len(entries) <= 2 * limit

\* C25: get_recent_messages(session_id, limit) returns entries of the limit
\* most recent rows of the session that are not soft-deleted, oldest row
\* first, user entry before assistant entry, at most two entries a row and at
\* most 2*limit entries.
C25_RecentChronological ==
    last.op = "recent" =>
        /\ ChronologicalEntries(last.result, last.args.limit)
        /\ \A i \in 1..Len(last.result) :
              last.result[i].timestamp
                  \in MostRecentLive(store, last.args.session_id, last.args.limit)

\* C25, the order and the size of the answer alone.
C25_OrderAndSize ==
    last.op = "recent" => ChronologicalEntries(last.result, last.args.limit)

\* An exchange with an assistant text that is not the in-flight sentinel.
CompletedExchange(row) == Truthy(row.response) /\ row.response # Sentinel

\* The chunk an exchange is indexed as.
ChunkTextOf(row) ==
    SplitText(DocContent([user |-> row.message, assistant |-> row.response]))[1]

\* C26: after a run of a reconciliation path for a session whose reads and
\* writes worked, every row of the session that is not soft-deleted and is
\* completed has a chunk under its user and the session, and every chunk the
\* run created is the chunk of such a row.
C26_ReconciliationCoversSession ==
    (last.op \in {"migrate", "sync"} /\ last.args.db_ok /\ last.args.add_ok) =>
        /\ \A i \in 1..Len(store) :
              (/\ store[i].session_id = last.args.session_id
               /\ ~store[i].is_deleted
               /\ CompletedExchange(store[i])) =>
                  \E j \in 1..Len(index) :
                      /\ index[j].session_id = last.args.session_id
                      /\ index[j].user_id = IntText(store[i].user_id)
                      /\ index[j].content = ChunkTextOf(store[i])
        /\ \A j \in (Len(last.before) + 1)..Len(index) :
              \E i \in 1..Len(store) :
                  /\ store[i].session_id = last.args.session_id
                  /\ ~store[i].is_deleted
                  /\ CompletedExchange(store[i])
                  /\ index[j].content = ChunkTextOf(store[i])

\* C26 for the runs of the migration script alone.
C26_MigrationCoversSession ==
    last.op = "migrate" => C26_ReconciliationCoversSession

\* C27: no step removes a row of the table or changes the message, the
\* response, the session key or the owner of a row, and no step takes the
\* is_deleted flag of a row from true back to false.
C27_ExchangesImmutable ==
    [][/\ Len(store') >= Len(store)
       /\ \A i \in 1..Len(store) :
             /\ store'[i].id = store[i].id
             /\ store'[i].user_id = store[i].user_id
             /\ store'[i].character_id = store[i].character_id
             /\ store'[i].message = store[i].message
             /\ store'[i].response = store[i].response
             /\ store'[i].session_id = store[i].session_id
             /\ store[i].is_deleted => store'[i].is_deleted]_vars

\* delete_session has just flagged a row of the session and left a row of
\* another session alone.
C27_Witness ==
    /\ last.op = "delete_session"
    /\ Len(store) = 2
    /\ \E i \in 1..Len(store) :
          /\ store[i].session_id = last.args.session_id
          /\ ~last.before[i].is_deleted
          /\ store[i].is_deleted
          /\ store[i].message = last.before[i].message
          /\ store[i].response = last.before[i].response
    /\ \E i \in 1..Len(store) :
          /\ store[i].session_id # last.args.session_id
          /\ ~store[i].is_deleted

\* C28: delete_session_vectors for a session that has no chunk leaves the
\* collection as it was, and so does a call that repeats, for the same
\* session, a deletion that went through; the method returns without an
\* exception in every case.
C28_DeleteSessionIdempotent ==
    last.op = "delete" =>
        /\ (\A i \in 1..Len(last.before) :
                last.before[i].session_id # last.args.session_id) =>
               index = last.before
        /\ last.repeat => index = last.before
        /\ \A i \in 1..Len(index) :
              \E j \in 1..Len(last.before) : index[i] = last.before[j]

\* The second of two deletions of a session that had a chunk, with a chunk
\* of another session in the collection.
C28_Witness ==
    /\ last.op = "delete"
    /\ last.repeat
    /\ last.args.del_ok
    /\ last.args.session_id = K12
    /\ index # <<>>
    /\ index = last.before

\* C29: of the fragments a request has pulled from the backend, all but the
\* last have been handed on by the consumer of the generator, and the last
\* one is the only one that can still be with it.
C29_Backpressure ==
    \A r \in DOMAIN req :
        /\ Len(req[r].pulled) - req[r].forwarded \in {0, 1}
        /\ Len(req[r].pulled) - req[r].forwarded = 1 =>
              /\ req[r].pc \in {"yielded", "cancelled"}
              /\ req[r].yielded[Len(req[r].yielded)] =
                     StreamItem(req[r].pulled[Len(req[r].pulled)])

\* The second fragment is with the consumer and the first has been handed on.
C29_Witness ==
    \E r \in DOMAIN req :
        /\ req[r].pc = "yielded"
        /\ Len(req[r].pulled) = 2
        /\ req[r].forwarded = 1

\* The items of a sequence of fragments.
ItemsOf(fragments) == [i \in 1..Len(fragments) |-> StreamItem(fragments[i])]

\* C30: when the backend's stream raises after one fragment or more, the
\* generator has yielded the items of those fragments and then one error
\* item, the request never ends normally, save_message and
\* add_chat_to_vector_store are not called, and the table and the collection
\* are as the request found them.
C30_MidStreamFailure ==
    \A r \in DOMAIN req :
        (req[r].backend_failed /\ Len(req[r].pulled) >= 1) =>
            /\ req[r].pc \in {"yielded", "failed", "cancelled"}
            /\ req[r].pc \in {"yielded", "failed"} =>
                  req[r].yielded = ItemsOf(req[r].pulled) \o <<ErrorItem>>
            /\ req[r].pc = "failed" => req[r].forwarded = Len(req[r].pulled)
            /\ req[r].commit_args = <<>>
            /\ req[r].saved = <<>>
            /\ req[r].upserts = 0
            /\ store = req[r].store0
            /\ index = req[r].index0

\* The backend failed after two fragments, of a request that found an
\* earlier exchange, and the consumer has received the error item.
C30_Witness ==
    \E r \in DOMAIN req :
        /\ req[r].backend_failed
        /\ Len(req[r].pulled) = 2
        /\ req[r].complete_response # <<>>
        /\ req[r].pc = "failed"
        /\ req[r].store0 # <<>>

\* C31: every chunk of the collection is the chunk of a row that the table
\* holds under the session key of the chunk's metadata.
C31_IndexProjectsStore ==
    \A j \in 1..Len(index) :
        \E i \in 1..Len(store) :
            /\ store[i].session_id = index[j].session_id
            /\ index[j].content = ChunkTextOf(store[i])

\* C32: after a session-delete request whose deletion of chunks worked, a
\* session that had rows or chunks has all its rows flagged and no chunk
\* left, and a session that had neither is answered 404 with the table and
\* the collection as they were.
C32_DeleteRequestClearsSession ==
    (last.op = "delete_request" /\ last.args.del_ok) =>
        LET s == last.args.session_id
            known ==
                \/ \E i \in 1..Len(last.before.store) :
                       last.before.store[i].session_id = s
                \/ \E j \in 1..Len(last.before.index) :
                       last.before.index[j].session_id = s
        IN  IF known
            THEN (InFlight(s) = {} /\ last.during = {}) =>
                    /\ \A i \in 1..Len(store) :
                          store[i].session_id = s => store[i].is_deleted
                    /\ \A j \in 1..Len(index) : index[j].session_id # s
            ELSE /\ last.result = 404
                 /\ store = last.before.store
                 /\ index = last.before.index

\* C34: when a session-delete request that found its session and deleted
\* its chunks ran while a stream request for the session was streaming,
\* then once that request is over the collection holds
\* no chunk of the session and the table no live row of it.
C34_DeleteDuringStream ==
    (/\ last.op = "delete_request"
     /\ last.args.session_exists
     /\ last.args.del_ok
     /\ last.streaming # {}
     /\ InFlight(last.args.session_id) = {}) =>
        /\ \A j \in 1..Len(index) : index[j].session_id # last.args.session_id
        /\ \A i \in 1..Len(store) :
              store[i].session_id = last.args.session_id => store[i].is_deleted

\* C33: however often the exchanges of a session are replayed into the
\* collection, the session has no more chunks than it has exchanges to
\* index (each exchange of the model makes one chunk): a replay adds no
\* second chunk of an exchange.
C33_ReplayCreatesNoDuplicate ==
    \A s \in RecentKeys :
        Cardinality({j \in 1..Len(index) : index[j].session_id = s})
            <= Cardinality({i \in 1..Len(store) :
                               /\ store[i].session_id = s
                               /\ ~store[i].is_deleted
                               /\ CompletedExchange(store[i])})

\* The chunks of a collection that are not of a session, in order.
OtherSessions(idx, session_id) ==
    SelectIdx(idx, {j \in 1..Len(idx) : idx[j].session_id # session_id}, 1)

\* C35: a call of add_chat_to_vector_store(u, s, ...) keeps every chunk the
\* collection had, unchanged and in place, and every chunk it adds has u and
\* s in its metadata; a call of delete_session_vectors(s) adds nothing and
\* keeps every chunk of every other session unchanged.
C35_ScopedWrites ==
    [][/\ last'.op = "upsert" =>
             /\ Len(index') >= Len(index)
             /\ \A j \in 1..Len(index) : index'[j] = index[j]
             /\ \A j \in (Len(index) + 1)..Len(index') :
                   /\ index'[j].user_id = last'.args.user_id
                   /\ index'[j].session_id = last'.args.session_id
       /\ last'.op = "delete" =>
             /\ OtherSessions(index', last'.args.session_id)
                   = OtherSessions(index, last'.args.session_id)
             /\ \A j \in 1..Len(index') :
                   \E i \in 1..Len(index) : index'[j] = index[i]]_vars

\* A deletion has removed the chunk of its session and kept the chunk of
\* another session, which an upsert had added next to it.
C35_Witness ==
    /\ last.op = "delete"
    /\ last.args.del_ok
    /\ ~last.repeat
    /\ Len(last.before) = 2
    /\ Len(index) = 1
    /\ index[1].session_id # last.args.session_id

\* C36: a query without a session id returns chunks of its user only, of
\* whatever session, and it returns every chunk of that user that the engine
\* answered with.
C36_QueryWithoutSession ==
    (last.op = "query" /\ last.args.session_id = None) =>
        /\ \A i \in 1..Len(last.result) :
              last.result[i].metadata.user_id = last.args.user_id
        /\ \A j \in 1..Len(last.raw) :
              last.raw[j].user_id = last.args.user_id =>
                  \E i \in 1..Len(last.result) : last.result[i].metadata = last.raw[j]

====
